---- MODULE Spec2Model ----
(***************************************************************************)
(* The Wayland dispatch thread of iced's winit shell: SctkState, the       *)
(* handlers of the calloop event loop (commands, compositor events, the    *)
(* popup retry timer) and the redraw scan of SctkEventLoop::new.           *)
(*                                                                         *)
(* Every action is one handler run of the dispatch thread.  The inputs of  *)
(* a handler (the command's arguments, the object a compositor event is    *)
(* for, whether the compositor rejects an object creation) are chosen      *)
(* with \E.                                                                *)
(***************************************************************************)
EXTENDS Naturals, Integers, Sequences, FiniteSets, TLC

\* ---------------------------------------------------------------- bounds
\* core::window::Id values handed out by Id::unique() for layer surfaces and
\* popups in one run
MaxIds == 3
\* core::window::Id values handed out for winit windows in one run
MaxWindows == 1
\* layer surfaces alive at the same time
MaxLayers == 1
\* wl_surface object ids in use or reusable in one run
NumProto == 2
\* events buffered in sctk_events between two scans
MaxEvents == 1
\* largest width or height a Size command or a configure event carries
MaxDim == 0
\* RequestToken commands handled
MaxTokens == 2
\* lock surfaces alive at a time
MaxLockSurfaces == 1
\* statuses merged in one fold
MaxOperands == 4
\* commands waiting on the calloop channel
MaxQueued == 3

\* ---------------------------------------------------- program constants
\* window::Id::NONE, also the "no entry" value of id_map lookups
None == 0
\* C6, altered limit: one more retry
MaxAttemptsPlusOne == 5 + 1

\* `if attempt < 5` in the retry timer
MaxAttempts == 5

\* Id::unique() never repeats a value: the ids of winit windows are named
\* after those of the surfaces the commands create
WindowIds == (MaxIds + 1)..(MaxIds + MaxWindows)
SurfaceIds == (1..MaxIds) \cup WindowIds
ProtoIds == 1..NumProto

VARIABLES
    nextId,         \* core::window::Id::COUNT, the next id of a layer surface or popup
    nextWin,        \* number of windows tracked so far
    nextProto,      \* lowest wl_surface object id never handed out
    windows,        \* SctkState.windows: set of [id, wl]
    layer_surfaces, \* SctkState.layer_surfaces: sequence of
                    \* [id, wl, requested_size, last_configure]
    popups,         \* SctkState.popups: sequence of [id, wl, parent]
    frame_status,   \* SctkState.frame_status: ProtoIds -> status ("Absent" = no entry)
    id_map,         \* SctkState.id_map: ProtoIds -> SurfaceIds \cup {None}
    destroyed,      \* SctkState.destroyed
    pending_popup,  \* SctkState.pending_popup: <<>> (None) or <<[popup, attempt]>> (Some)
    timers,         \* number of retry timers inserted in the loop handle
    sctk_events,    \* SctkState.sctk_events
    emitted,        \* what the last handler run placed on events_sender
    undropped,      \* surfaces whose Done was sent and whose window is not dropped yet
    panicked,       \* the dispatch thread unwound
    reqSince,       \* a redraw was requested for the object since its last commit
    frameSince,     \* a frame callback arrived for the object since its last commit
    forgotten,      \* [id, wl] of the id_map entries removed by a destruction
    given_up,       \* ids of the popup requests dropped by the retry timer at its limit
    activation_state,     \* SctkState.activation_state is Some
    activation_token_ctr, \* SctkState.activation_token_ctr (u32)
    token_senders,        \* SctkState.token_senders: set of [id, channel]
    token_requests,       \* token requests the compositor has not answered: [id, surface]
    received,             \* per RequestToken command, what its oneshot channel was sent
    session_lock,         \* SctkState.session_lock is Some
    lock_surfaces,        \* SctkState.lock_surfaces: sequence of [id, wl]
    in_roundtrip,         \* the dispatch thread is inside connection.roundtrip()
    to_commit,            \* SctkState.to_commit: the pairs [id, wl] of the map, by id
    operands,             \* the event statuses a fold of Status::merge is given
    folded,               \* how many of the operands have been merged
    merged,               \* the status merged so far
    setup,                \* the dispatch thread's setup: "starting", "done" or "failed"
    sender,               \* WaylandSpecific.sender: "unset" before with_wayland, "None", "Some"
    channel,              \* commands sent on the calloop channel and not yet received
    logged,               \* the last send_wayland logged "Failed to process wayland Action."
    required_globals      \* the compositor has wl_compositor, wl_shm and xdg shell

vars == <<nextId, nextWin, nextProto, windows, layer_surfaces, popups, frame_status,
          id_map, destroyed, pending_popup, timers, sctk_events, emitted,
          undropped, panicked, reqSince, frameSince, forgotten, given_up,
          activation_state, activation_token_ctr, token_senders, token_requests,
          received, session_lock, lock_surfaces, in_roundtrip, to_commit,
          operands, folded, merged, setup, sender, channel, logged,
          required_globals>>

lockvars == <<session_lock, lock_surfaces, in_roundtrip>>

statusvars == <<operands, folded, merged>>

bridgevars == <<setup, sender, channel, logged, required_globals>>

tokvars == <<activation_state, activation_token_ctr, token_senders, token_requests,
             received>>

\* ------------------------------------------------------ sequence helpers
\* Iterator::position: index of the first element with field f equal to v, 0 if none
RECURSIVE PosFrom(_, _, _, _)
PosFrom(s, f, v, i) ==
    IF i > Len(s) THEN 0
    ELSE IF s[i][f] = v THEN i
    ELSE PosFrom(s, f, v, i + 1)

Position(s, f, v) == PosFrom(s, f, v, 1)

\* Vec::remove
RemoveAt(s, i) == SubSeq(s, 1, i - 1) \o SubSeq(s, i + 1, Len(s))

RECURSIVE Reverse(_)
Reverse(s) == IF s = <<>> THEN <<>> ELSE Append(Reverse(Tail(s)), Head(s))

Range(s) == {s[i] : i \in 1..Len(s)}

\* --------------------------------------------------------------- sizes
Dims == 0..MaxDim

\* Option<u32>: <<>> is None, <<n>> is Some(n)
OptDims == {<<>>} \cup {<<d>> : d \in Dims}

\* Option::unwrap_or
UnwrapOr(o, d) == IF o = <<>> THEN d ELSE o[1]

\* LayerShellHandler::configure: per axis the requested dimension when one is
\* set, otherwise the compositor's dimension raised to at least 1
configure_size(requested, proposed) ==
    [k \in 1..2 |-> IF requested[k] # <<>> THEN requested[k][1]
                    ELSE IF proposed[k] < 1 THEN 1 ELSE proposed[k]]

\* ------------------------------------------------------- frame throttle
\* C27, altered callback: any entry, not only RequestedRedraw, becomes Ready
receive_frame_unpaired(fs, p) ==
    IF fs[p] = "Absent" THEN [fs EXCEPT ![p] = "Received"]
    ELSE [fs EXCEPT ![p] = "Ready"]

\* receive_frame: `entry(s.id()).or_insert(Received)`, then RequestedRedraw
\* becomes Ready
receive_frame(fs, p) ==
    IF fs[p] = "Absent" THEN [fs EXCEPT ![p] = "Received"]
    ELSE IF fs[p] = "RequestedRedraw" THEN [fs EXCEPT ![p] = "Ready"]
    ELSE fs

\* C2 mutant: a redraw request makes a surface without an entry Ready at once
request_redraw_eager(fs, p) ==
    IF fs[p] \in {"Absent", "Received"} THEN [fs EXCEPT ![p] = "Ready"]
    ELSE fs

request_redraw(fs, p) ==
    IF fs[p] = "Absent" THEN [fs EXCEPT ![p] = "RequestedRedraw"]
    ELSE IF fs[p] = "Received" THEN [fs EXCEPT ![p] = "Ready"]
    ELSE fs

\* --------------------------------------------------- wl_surface objects
\* object ids of the surfaces made by create_surface that are still referenced:
\* by a record of the dispatch thread, by a buffered event, or by a window the
\* consumer holds.  The surfaces of winit's own windows never enter id_map or
\* the redraw scan; they are named apart from ProtoIds.
WindowSurface(id) == NumProto + id

Alive ==
    {l.wl : l \in Range(layer_surfaces)}
    \cup {q.wl : q \in Range(popups)} \cup {e.wl : e \in Range(sctk_events)}
    \cup {u.wl : u \in undropped} \cup {k.wl : k \in Range(lock_surfaces)}

\* ids compositor_state.create_surface may return: a released id or the next fresh one
Allocatable ==
    ((1..(nextProto - 1)) \ Alive)
    \cup (IF nextProto <= NumProto THEN {nextProto} ELSE {})

BumpProto(p) == IF p = nextProto THEN nextProto + 1 ELSE nextProto

\* ------------------------------------------------------- notifications
\* sid is the SurfaceId the consumer resolves the event's wl_surface to
\* (its surface_ids map, filled from the Created event)
Ev(variant, wl, sid) == [variant |-> variant, wl |-> wl, sid |-> sid]

\* LayerSurfaceEventVariant::Configure(configure, wl_surface, first)
EvConfigure(wl, sid, size, first) ==
    [variant |-> "LayerConfigure", wl |-> wl, sid |-> sid, size |-> size, first |-> first]

Dones(evs) == {[id |-> e.sid, wl |-> e.wl] :
                 e \in {x \in Range(evs) : x.variant \in {"PopupDone", "LayerDone"}}}

\* ---------------------------------------------------- popup destruction
\* The `while let Some(popup_to_destroy) = to_destroy.last()` loop: follow the
\* parent link of the popup queued last; `.position(..).unwrap()` panics when
\* the parent popup is not in the stack.
RECURSIVE WalkParents(_, _)
WalkParents(pops, to_destroy) ==
    LET last == to_destroy[Len(to_destroy)] IN
    IF last.parent.kind # "Popup"
    THEN [popups |-> pops, to_destroy |-> to_destroy, panic |-> FALSE]
    ELSE LET i == Position(pops, "wl", last.parent.wl) IN
         IF i = 0
         THEN [popups |-> pops, to_destroy |-> to_destroy, panic |-> TRUE]
         ELSE WalkParents(RemoveAt(pops, i), Append(to_destroy, pops[i]))

\* The `for popup in to_destroy.into_iter().rev()` loop: forget the mapping,
\* remember the id as destroyed, emit Done.  st.out collects the events.
RECURSIVE ForgetAndEmit(_, _)
ForgetAndEmit(st, rev) ==
    IF rev = <<>> THEN st
    ELSE LET q == Head(rev)
             sid == st.id_map[q.wl]
             st2 == [st EXCEPT
                       !.id_map = [@ EXCEPT ![q.wl] = None],
                       !.destroyed = IF sid # None THEN @ \cup {sid} ELSE @,
                       !.forgotten = IF sid # None THEN @ \cup {[id |-> sid, wl |-> q.wl]} ELSE @,
                       !.out = Append(@, Ev("PopupDone", q.wl, q.id))]
         IN ForgetAndEmit(st2, Tail(rev))

\* C10, altered destruction: the mapping is looked up but not removed
DestroyChainKeepsMapping(st, i) ==
    LET w == WalkParents(RemoveAt(st.popups, i), <<st.popups[i]>>) IN
    IF w.panic
    THEN [st EXCEPT !.popups = w.popups, !.panicked = TRUE]
    ELSE [ForgetAndEmit([st EXCEPT !.popups = w.popups], Reverse(w.to_destroy))
            EXCEPT !.id_map = st.id_map]

\* Both destruction handlers, from the position i of the popup in the stack
DestroyChain(st, i) ==
    LET w == WalkParents(RemoveAt(st.popups, i), <<st.popups[i]>>) IN
    IF w.panic
    THEN [st EXCEPT !.popups = w.popups, !.panicked = TRUE]
    ELSE ForgetAndEmit([st EXCEPT !.popups = w.popups], Reverse(w.to_destroy))

\* handle_action(popup::Action::Destroy { id })
PopupDestroy(st, id) ==
    LET i == Position(st.popups, "id", id) IN
    IF i = 0 THEN st ELSE DestroyChain(st, i)

\* PopupHandler::done
PopupDone(st, wl) ==
    LET i == Position(st.popups, "wl", wl) IN
    IF i = 0 THEN st ELSE DestroyChain(st, i)

\* The part of SctkState the popup handlers work on
Cur == [popups |-> popups, id_map |-> id_map, destroyed |-> destroyed,
        forgotten |-> forgotten, out |-> <<>>, panicked |-> FALSE]

\* ------------------------------------------------------- popup creation
\* `self.popups.last().is_some_and(|p| id_map.get(..).map_or(true, |p| *p != parent))`
parent_mismatch(pops, idm, parent) ==
    /\ pops # <<>>
    /\ idm[pops[Len(pops)].wl] # parent

Blocked(pops, idm, destr, parent) ==
    destr # {} \/ parent_mismatch(pops, idm, parent)

\* `for i in 0..self.popups.len()`: the range is fixed before the loop, the
\* stack shrinks inside it; indexing past the end panics.
RECURSIVE MismatchLoop(_, _, _, _)
MismatchLoop(st, i, n, parent) ==
    IF i > n THEN st
    ELSE IF i > Len(st.popups) THEN [st EXCEPT !.panicked = TRUE]
    ELSE LET sid == st.id_map[st.popups[i].wl] IN
         IF sid # None /\ sid # parent
         THEN LET st2 == PopupDestroy(st, sid) IN
              IF st2.panicked THEN st2 ELSE MismatchLoop(st2, i + 1, n, parent)
         ELSE MismatchLoop(st, i + 1, n, parent)

\* SctkState::get_popup.  fail is what the compositor library rejects
\* ("none", "positioner", "popup"); p is the id create_surface returns.
get_popup(st, settings, fail, p) ==
    LET li == Position(layer_surfaces, "id", settings.parent)
        ws == {w \in windows : w.id = settings.parent}
        pi == Position(st.popups, "id", settings.parent)
        found == li # 0 \/ ws # {} \/ pi # 0
        parent == IF li # 0 THEN [kind |-> "LayerSurface", wl |-> layer_surfaces[li].wl]
                  ELSE IF ws # {} THEN [kind |-> "Window", wl |-> (CHOOSE w \in ws : TRUE).wl]
                  ELSE [kind |-> "Popup", wl |-> st.popups[pi].wl]
    IN
    IF ~found THEN [st |-> st, ok |-> FALSE, err |-> "ParentMissing", created |-> FALSE]
    ELSE IF fail = "positioner"
    THEN [st |-> st, ok |-> FALSE, err |-> "PositionerCreationFailed", created |-> FALSE]
    ELSE LET st2 == [st EXCEPT !.id_map = [@ EXCEPT ![p] = settings.id]] IN
         IF fail = "popup"
         THEN [st |-> st2, ok |-> FALSE, err |-> "PopupCreationFailed", created |-> TRUE]
         ELSE [st |-> [st2 EXCEPT !.popups =
                          Append(@, [id |-> settings.id, wl |-> p, parent |-> parent])],
               ok |-> TRUE, err |-> "", created |-> TRUE]

\* ----------------------------------------------------------------- Init
\* SctkState as built in SctkEventLoop::new
InitDispatch ==
    /\ nextId = 1
    /\ nextWin = 0
    /\ nextProto = 1
    /\ windows = {}
    /\ layer_surfaces = <<>>
    /\ popups = <<>>
    /\ frame_status = [p \in ProtoIds |-> "Absent"]
    /\ id_map = [p \in ProtoIds |-> None]
    /\ destroyed = {}
    /\ pending_popup = <<>>
    /\ timers = 0
    /\ sctk_events = <<>>
    /\ emitted = <<>>
    /\ undropped = {}
    /\ panicked = FALSE
    /\ reqSince = [p \in ProtoIds |-> FALSE]
    /\ frameSince = [p \in ProtoIds |-> FALSE]
    /\ forgotten = {}
    /\ given_up = {}
    /\ activation_state \in BOOLEAN
    /\ activation_token_ctr = 0
    /\ token_senders = {}
    /\ token_requests = {}
    /\ received = <<>>
    /\ session_lock = FALSE
    /\ lock_surfaces = <<>>
    /\ in_roundtrip = FALSE
    /\ to_commit = <<>>

\* the bridge after with_wayland, with the dispatch thread in its loop
InitBridgeUp ==
    /\ setup = "done"
    /\ sender = "Some"
    /\ channel = <<>>
    /\ logged = FALSE
    /\ required_globals = TRUE

\* the dispatch state as constructed, and no statuses to merge
Init ==
    /\ InitDispatch
    /\ InitBridgeUp
    /\ operands = <<>>
    /\ folded = 0
    /\ merged = "Ignored"

Apply(st) ==
    /\ popups' = st.popups
    /\ id_map' = st.id_map
    /\ destroyed' = st.destroyed
    /\ forgotten' = st.forgotten
    /\ panicked' = st.panicked

\* ------------------------------------------------- commands: windows
\* Action::TrackWindow(window, id)
TrackWindow ==
    /\ ~panicked /\ ~in_roundtrip
    /\ UNCHANGED <<given_up, tokvars, lockvars, to_commit, statusvars, bridgevars>>
    /\ nextWin < MaxWindows
    /\ LET id == MaxIds + nextWin + 1 IN
       windows' = windows \cup {[id |-> id, wl |-> WindowSurface(id)]}
    /\ nextWin' = nextWin + 1
    /\ emitted' = <<>>
    /\ UNCHANGED <<nextId, nextProto, layer_surfaces, popups, frame_status, id_map,
                   destroyed, pending_popup, timers, sctk_events, undropped, panicked,
                   reqSince, frameSince, forgotten>>

\* Action::RemoveWindow(id)
RemoveWindow ==
    /\ ~panicked /\ ~in_roundtrip
    /\ UNCHANGED <<given_up, tokvars, lockvars, to_commit, statusvars, bridgevars>>
    /\ \E id \in WindowIds :
         /\ \E w \in windows : w.id = id
         /\ windows' = {w \in windows : w.id # id}
    /\ emitted' = <<>>
    /\ UNCHANGED <<nextId, nextWin, nextProto, layer_surfaces, popups, frame_status, id_map,
                   destroyed, pending_popup, timers, sctk_events, undropped,
                   panicked, reqSince, frameSince, forgotten>>

\* proxy.wake_up(), and Control::AboutToWait on events_sender
WakeUp == Ev("wake_up", None, None)
AboutToWait == Ev("AboutToWait", None, None)

RECURSIVE HandlerOps(_)
\* What a handler that sends `sent` does to the consumer: send_event is
\* unbounded_send followed by proxy.wake_up(), once per notification
HandlerOps(sent) ==
    IF sent = <<>> THEN <<>>
    ELSE <<Head(sent), WakeUp>> \o HandlerOps(Tail(sent))

\* What the loop does to the consumer between two calls of
\* event_loop.dispatch: the redraw requests and the drained sctk_events by
\* unbounded_send, `if wake_up { proxy.wake_up() }`, and at the head of the
\* next iteration unbounded_send(Control::AboutToWait)
LoopOps(sent) ==
    sent \o (IF sent # <<>> THEN <<WakeUp>> ELSE <<>>) \o <<AboutToWait>>

\* Nothing was sent after the last wake
EndsWoken(ops) == ops = <<>> \/ ops[Len(ops)] = WakeUp

\* ------------------------------------------- commands: layer surfaces
\* C15, altered creation: Created is buffered in sctk_events, not sent
LayerSurfaceCreateBuffered ==
    /\ ~panicked /\ ~in_roundtrip
    /\ UNCHANGED <<given_up, tokvars, lockvars, to_commit, statusvars, bridgevars>>
    /\ nextId <= MaxIds
    /\ Len(layer_surfaces) < MaxLayers
    /\ \E p \in Allocatable :
         /\ id_map' = [id_map EXCEPT ![p] = nextId]
         /\ layer_surfaces' = Append(layer_surfaces,
                                     [id |-> nextId, wl |-> p,
                                      requested_size |-> <<<<1>>, <<1>>>>,
                                      size |-> <<1, 1>>,
                                      last_configure |-> <<>>,
                                      anchor |-> 0, exclusive_zone |-> 0,
                                      margin |-> 0, keyboard_interactivity |-> 0,
                                      layer |-> 0])
         /\ frame_status' = receive_frame(frame_status, p)
         /\ frameSince' = [frameSince EXCEPT ![p] = TRUE]
         /\ emitted' = <<>>
         /\ sctk_events' = Append(sctk_events, Ev("LayerCreated", p, nextId))
         /\ nextProto' = BumpProto(p)
    /\ nextId' = nextId + 1
    /\ UNCHANGED <<nextWin, windows, popups, destroyed, pending_popup, timers,
                   undropped, panicked, reqSince, forgotten>>

\* handle_action(layer_surface::Action::LayerSurface { builder }), for a
\* builder with no size and no pair of opposite anchors: get_layer_surface
\* makes the requested size (Some(1), Some(1)) and the size 1 x 1 in Common; the builder's anchor,
\* exclusive zone, margin, keyboard interactivity and layer are the value 0
LayerSurfaceCreate ==
    /\ ~panicked /\ ~in_roundtrip
    /\ UNCHANGED <<given_up, tokvars, lockvars, to_commit, statusvars, bridgevars>>
    /\ nextId <= MaxIds
    /\ Len(layer_surfaces) < MaxLayers
    /\ \E p \in Allocatable :
         /\ id_map' = [id_map EXCEPT ![p] = nextId]
         /\ layer_surfaces' = Append(layer_surfaces,
                                     [id |-> nextId, wl |-> p,
                                      requested_size |-> <<<<1>>, <<1>>>>,
                                      size |-> <<1, 1>>,
                                      last_configure |-> <<>>,
                                      anchor |-> 0, exclusive_zone |-> 0,
                                      margin |-> 0, keyboard_interactivity |-> 0,
                                      layer |-> 0])
         /\ frame_status' = receive_frame(frame_status, p)
         /\ frameSince' = [frameSince EXCEPT ![p] = TRUE]
         /\ emitted' = <<Ev("LayerCreated", p, nextId)>>
         /\ nextProto' = BumpProto(p)
    /\ nextId' = nextId + 1
    /\ UNCHANGED <<nextWin, windows, popups, destroyed, pending_popup, timers,
                   sctk_events, undropped, panicked, reqSince, forgotten>>

\* handle_action(layer_surface::Action::Destroy(id))
LayerDestroy ==
    /\ ~panicked /\ ~in_roundtrip
    /\ UNCHANGED <<given_up, tokvars, lockvars, to_commit, statusvars, bridgevars>>
    /\ \E id \in 1..(nextId - 1) :
         LET i == Position(layer_surfaces, "id", id) IN
         /\ i # 0
         /\ LET l == layer_surfaces[i]
                sid == id_map[l.wl]
            IN /\ layer_surfaces' = RemoveAt(layer_surfaces, i)
               /\ id_map' = [id_map EXCEPT ![l.wl] = None]
               /\ destroyed' = IF sid # None THEN destroyed \cup {sid} ELSE destroyed
               /\ forgotten' = IF sid # None THEN forgotten \cup {[id |-> sid, wl |-> l.wl]}
                               ELSE forgotten
               /\ emitted' = <<Ev("LayerDone", l.wl, l.id)>>
               /\ undropped' = undropped \cup {[id |-> l.id, wl |-> l.wl]}
    /\ UNCHANGED <<nextId, nextWin, nextProto, windows, popups, frame_status, pending_popup,
                   timers, sctk_events, panicked, reqSince, frameSince>>

\* SctkLayerSurface::set_size, receive_frame, and the Configure event rebuilt
\* from last_configure: `(width.unwrap_or(prev.0), width.unwrap_or(prev.1))`
layer_size(ls, fs, id, w, h) ==
    LET i == Position(ls, "id", id) IN
    IF i = 0 THEN [layer_surfaces |-> ls, frame_status |-> fs, out |-> <<>>]
    ELSE LET l == ls[i] IN
         [layer_surfaces |-> [ls EXCEPT ![i].requested_size = <<w, h>>],
          frame_status |-> receive_frame(fs, l.wl),
          out |-> IF l.last_configure = <<>> THEN <<>>
                  ELSE LET prev == l.last_configure[1] IN
                       <<EvConfigure(l.wl, l.id,
                                     <<UnwrapOr(w, prev[1]), UnwrapOr(w, prev[2])>>,
                                     FALSE)>>]

\* handle_action(layer_surface::Action::Size { id, width, height })
LayerSizeFor(id, w, h) ==
    /\ ~panicked /\ ~in_roundtrip
    /\ UNCHANGED <<given_up, tokvars, lockvars, to_commit, statusvars, bridgevars>>
    /\ LET r == layer_size(layer_surfaces, frame_status, id, w, h)
           i == Position(layer_surfaces, "id", id)
       IN /\ layer_surfaces' = r.layer_surfaces
          /\ frame_status' = r.frame_status
          /\ frameSince' = IF i = 0 THEN frameSince
                           ELSE [frameSince EXCEPT ![layer_surfaces[i].wl] = TRUE]
          /\ emitted' = r.out
    /\ UNCHANGED <<nextId, nextWin, nextProto, windows, popups, id_map, destroyed,
                   pending_popup, timers, sctk_events, undropped, panicked, reqSince,
                   forgotten>>

LayerSize == \E id \in 1..(nextId - 1), w \in OptDims, h \in OptDims : LayerSizeFor(id, w, h)

\* --------------------------------------------------- compositor events
\* LayerShellHandler::closed
LayerClosed ==
    /\ ~panicked /\ ~in_roundtrip
    /\ UNCHANGED <<given_up, tokvars, lockvars, to_commit, statusvars, bridgevars>>
    /\ Len(sctk_events) < MaxEvents
    /\ \E p \in Alive :
         LET i == Position(layer_surfaces, "wl", p) IN
         /\ i # 0
         /\ layer_surfaces' = RemoveAt(layer_surfaces, i)
         /\ sctk_events' = Append(sctk_events, Ev("LayerDone", p, layer_surfaces[i].id))
    /\ emitted' = <<>>
    /\ UNCHANGED <<nextId, nextWin, nextProto, windows, popups, frame_status, id_map, destroyed,
                   pending_popup, timers, undropped, panicked, reqSince, frameSince,
                   forgotten>>

\* LayerShellHandler::configure and PopupHandler::configure: request_redraw
\* first, then the Configure event when the surface is still tracked; for a
\* layer surface the size is settled and kept as last_configure
Configure ==
    /\ ~panicked /\ ~in_roundtrip
    /\ UNCHANGED <<given_up, tokvars, lockvars, to_commit, statusvars, bridgevars>>
    /\ \E p \in Alive :
         LET li == Position(layer_surfaces, "wl", p)
             pi == Position(popups, "wl", p)
         IN /\ (li # 0 \/ pi # 0) => Len(sctk_events) < MaxEvents
            /\ frame_status' = request_redraw(frame_status, p)
            /\ reqSince' = [reqSince EXCEPT ![p] = TRUE]
            /\ IF li # 0
               THEN \E proposed \in Dims \X Dims :
                      LET l == layer_surfaces[li]
                          size == configure_size(l.requested_size, proposed)
                      IN /\ layer_surfaces' =
                              [layer_surfaces EXCEPT ![li].last_configure = <<size>>,
                                                     ![li].size = size]
                         /\ sctk_events' =
                              Append(sctk_events,
                                     EvConfigure(p, l.id, size, l.last_configure = <<>>))
               ELSE /\ layer_surfaces' = layer_surfaces
                    /\ sctk_events' =
                         IF pi # 0
                         THEN Append(sctk_events, Ev("PopupConfigure", p, popups[pi].id))
                         ELSE sctk_events
    /\ emitted' = <<>>
    /\ UNCHANGED <<nextId, nextWin, nextProto, windows, popups, id_map,
                   destroyed, pending_popup, timers, undropped, panicked, frameSince,
                   forgotten>>

\* CompositorHandler::frame
Frame ==
    /\ ~panicked /\ ~in_roundtrip
    /\ UNCHANGED <<given_up, tokvars, lockvars, to_commit, statusvars, bridgevars>>
    /\ \E p \in Alive :
         /\ frame_status' = receive_frame(frame_status, p)
         /\ frameSince' = [frameSince EXCEPT ![p] = TRUE]
    /\ emitted' = <<>>
    /\ UNCHANGED <<nextId, nextWin, nextProto, windows, layer_surfaces, popups, id_map,
                   destroyed, pending_popup, timers, sctk_events, undropped, panicked,
                   reqSince, forgotten>>

\* C26, altered request: the surface is made Ready whatever its entry
RequestRedrawUnpaired ==
    /\ ~panicked /\ ~in_roundtrip
    /\ UNCHANGED <<given_up, tokvars, lockvars, to_commit, statusvars, bridgevars>>
    /\ \E p \in Alive :
         /\ frame_status' = [frame_status EXCEPT ![p] = "Ready"]
         /\ reqSince' = [reqSince EXCEPT ![p] = TRUE]
    /\ emitted' = <<>>
    /\ UNCHANGED <<nextId, nextWin, nextProto, windows, layer_surfaces, popups, id_map,
                   destroyed, pending_popup, timers, sctk_events, undropped, panicked,
                   frameSince, forgotten>>

\* Action::RequestRedraw(id), and SctkState::request_redraw from the input handlers
RequestRedraw ==
    /\ ~panicked /\ ~in_roundtrip
    /\ UNCHANGED <<given_up, tokvars, lockvars, to_commit, statusvars, bridgevars>>
    /\ \E p \in Alive :
         /\ frame_status' = request_redraw(frame_status, p)
         /\ reqSince' = [reqSince EXCEPT ![p] = TRUE]
    /\ emitted' = <<>>
    /\ UNCHANGED <<nextId, nextWin, nextProto, windows, layer_surfaces, popups, id_map,
                   destroyed, pending_popup, timers, sctk_events, undropped, panicked,
                   frameSince, forgotten>>

\* C38, altered callback: the Dropped action is received and ignored
DroppedIgnored ==
    /\ ~panicked /\ ~in_roundtrip
    /\ \E u \in undropped : undropped' = undropped \ {u}
    /\ emitted' = <<>>
    /\ UNCHANGED <<nextId, nextWin, nextProto, windows, layer_surfaces, popups, frame_status,
                   id_map, destroyed, pending_popup, timers, sctk_events, panicked, reqSince,
                   frameSince, forgotten, given_up, tokvars, lockvars, to_commit,
                   statusvars, bridgevars>>

\* Action::Dropped(id): the consumer dropped the window of a surface whose
\* Done it has handled (Drop for SctkWinitWindow)
Dropped ==
    /\ ~panicked /\ ~in_roundtrip
    /\ UNCHANGED <<given_up, tokvars, lockvars, to_commit, statusvars, bridgevars>>
    /\ \E u \in undropped :
         /\ destroyed' = destroyed \ {u.id}
         /\ undropped' = undropped \ {u}
    /\ emitted' = <<>>
    /\ UNCHANGED <<nextId, nextWin, nextProto, windows, layer_surfaces, popups, frame_status,
                   id_map, pending_popup, timers, sctk_events, panicked, reqSince,
                   frameSince, forgotten>>

\* ------------------------------------------------------ commands: popups
\* The two creation sites (command, retry timer): get_popup, then on success
\* receive_frame and the Created event, on failure only log::error!
CreatePopup(st, settings, fail, p) ==
    LET r == get_popup(st, settings, fail, p) IN
    /\ Apply(r.st)
    /\ nextProto' = IF r.created THEN BumpProto(p) ELSE nextProto
    /\ frame_status' = IF r.ok THEN receive_frame(frame_status, p) ELSE frame_status
    /\ frameSince' = IF r.ok THEN [frameSince EXCEPT ![p] = TRUE] ELSE frameSince
    /\ emitted' = IF r.ok THEN <<Ev("PopupCreated", p, settings.id)>> ELSE <<>>

\* create_surface is reached: the parent is found and the positioner is made
ReachesCreate(st, parent, fail) ==
    /\ fail # "positioner"
    /\ \/ Position(layer_surfaces, "id", parent) # 0
       \/ \E w \in windows : w.id = parent
       \/ Position(st.popups, "id", parent) # 0

Fails == {"none", "positioner", "popup"}

\* handle_action(popup::Action::Popup { popup }) for a request with the given
\* parent; the request's id is the next unique window::Id
PopupCmdFor(parent, fail) ==
    /\ ~panicked /\ ~in_roundtrip
    /\ UNCHANGED <<given_up, tokvars, lockvars, to_commit, statusvars, bridgevars>>
    /\ nextId <= MaxIds
    /\ nextId' = nextId + 1
    /\ LET popup == [id |-> nextId, parent |-> parent]
           mismatch == parent_mismatch(popups, id_map, parent)
       IN
       IF destroyed # {} \/ mismatch
       THEN LET st == IF mismatch
                      THEN MismatchLoop(Cur, 1, Len(popups), parent)
                      ELSE Cur
            IN /\ fail = "none"
               /\ Apply(st)
               /\ emitted' = st.out
               /\ undropped' = undropped \cup Dones(st.out)
               /\ pending_popup' = IF st.panicked THEN pending_popup
                                   ELSE <<[popup |-> popup, attempt |-> 0]>>
               /\ timers' = IF ~st.panicked /\ pending_popup = <<>>
                            THEN timers + 1 ELSE timers
               /\ UNCHANGED <<nextProto, frame_status, frameSince>>
       ELSE /\ pending_popup' = <<>>
            /\ \E p \in (IF ReachesCreate(Cur, parent, fail) THEN Allocatable ELSE {0}) :
                 CreatePopup(Cur, popup, fail, p)
            /\ UNCHANGED <<timers, undropped>>
    /\ UNCHANGED <<nextWin, windows, layer_surfaces, sctk_events, reqSince>>

\* the ids the consumer has got from Id::unique() so far
KnownIds == (1..(nextId - 1)) \cup ((MaxIds + 1)..(MaxIds + nextWin))

PopupCmd == \E parent \in KnownIds, fail \in Fails : PopupCmdFor(parent, fail)

\* handle_action(popup::Action::Destroy { id })
PopupDestroyCmdFor(id) ==
    /\ ~panicked /\ ~in_roundtrip
    /\ UNCHANGED <<given_up, tokvars, lockvars, to_commit, statusvars, bridgevars>>
    /\ LET st == PopupDestroy(Cur, id) IN
       /\ Apply(st)
       /\ emitted' = st.out
       /\ undropped' = undropped \cup Dones(st.out)
    /\ UNCHANGED <<nextId, nextWin, nextProto, windows, layer_surfaces, frame_status,
                   pending_popup, timers, sctk_events, reqSince, frameSince>>

PopupDestroyCmd == \E id \in 1..(nextId - 1) : PopupDestroyCmdFor(id)

\* PopupHandler::done
PopupDoneEv ==
    /\ ~panicked /\ ~in_roundtrip
    /\ UNCHANGED <<given_up, tokvars, lockvars, to_commit, statusvars, bridgevars>>
    /\ Len(sctk_events) < MaxEvents
    /\ \E p \in Alive :
         LET st == PopupDone(Cur, p) IN
         /\ Position(popups, "wl", p) # 0
         /\ Apply(st)
         /\ sctk_events' = sctk_events \o st.out
    /\ emitted' = <<>>
    /\ UNCHANGED <<nextId, nextWin, nextProto, windows, layer_surfaces, frame_status,
                   pending_popup, timers, undropped, reqSince, frameSince>>

\* The closure inserted with the 30 ms calloop Timer
TimerFire ==
    /\ ~panicked /\ ~in_roundtrip
    /\ timers > 0
    /\ IF pending_popup = <<>>
       THEN /\ timers' = timers - 1
            /\ emitted' = <<>>
            /\ UNCHANGED <<pending_popup, popups, id_map, destroyed, forgotten,
                           panicked, nextProto, frame_status, frameSince, given_up>>
       ELSE LET popup == pending_popup[1].popup
                attempt == pending_popup[1].attempt
            IN
            IF Blocked(popups, id_map, destroyed, popup.parent)
            THEN /\ IF attempt < MaxAttempts
                    THEN /\ pending_popup' = <<[popup |-> popup, attempt |-> attempt + 1]>>
                         /\ timers' = timers
                         /\ given_up' = given_up
                    ELSE /\ pending_popup' = <<>>
                         /\ timers' = timers - 1
                         /\ given_up' = given_up \cup {popup.id}
                 /\ emitted' = <<>>
                 /\ UNCHANGED <<popups, id_map, destroyed, forgotten, panicked,
                                nextProto, frame_status, frameSince>>
            ELSE /\ pending_popup' = <<>>
                 /\ timers' = timers - 1
                 /\ given_up' = given_up
                 /\ \E fail \in Fails :
                      \E p \in (IF ReachesCreate(Cur, popup.parent, fail)
                                THEN Allocatable ELSE {0}) :
                        CreatePopup(Cur, popup, fail, p)
    /\ UNCHANGED <<nextId, nextWin, windows, layer_surfaces, sctk_events, undropped,
                   reqSince, tokvars, lockvars, to_commit, statusvars, bridgevars>>


\* ------------------------------------------------- activation tokens
\* The token strings the compositor hands out
Tokens == 1..MaxTokens

\* `windows.iter().find(|w| w.id == id).map(wl_surface).or_else(||
\* layer_surfaces.iter().find(|l| l.id == id).map(wl_surface))`, as an Option
token_surface(window) ==
    IF window = None THEN <<>>
    ELSE IF \E w \in windows : w.id = window
    THEN <<(CHOOSE w \in windows : w.id = window).wl>>
    ELSE IF Position(layer_surfaces, "id", window) # 0
    THEN <<layer_surfaces[Position(layer_surfaces, "id", window)].wl>>
    ELSE <<>>

\* activation::Action::RequestToken { app_id, window, channel }; `absent` is
\* what the channel is sent when activation_state is None. The counter is a
\* u32 advanced by wrapping_add(1); at most MaxTokens requests are handled, so
\* it stays far below 2^32 and never wraps here
RequestTokenFor(window, absent) ==
    /\ ~panicked /\ ~in_roundtrip
    /\ Len(received) < MaxTokens
    /\ IF activation_state
       THEN /\ token_requests' = token_requests \cup
                  {[id |-> activation_token_ctr, surface |-> token_surface(window)]}
            /\ token_senders' =
                  {s \in token_senders : s.id # activation_token_ctr}
                  \cup {[id |-> activation_token_ctr, channel |-> Len(received) + 1]}
            /\ activation_token_ctr' = activation_token_ctr + 1
            /\ received' = Append(received, <<>>)
       ELSE /\ received' = Append(received, absent)
            /\ UNCHANGED <<token_requests, token_senders, activation_token_ctr>>
    /\ emitted' = <<>>
    /\ UNCHANGED <<nextId, nextWin, nextProto, windows, layer_surfaces, popups,
                   frame_status, id_map, destroyed, pending_popup, timers, sctk_events,
                   undropped, panicked, reqSince, frameSince, forgotten, given_up,
                   activation_state, lockvars, to_commit, statusvars, bridgevars>>

\* C20, altered handler: without the capability the channel is kept and
\* never sent to
RequestTokenStalls ==
    \E window \in {None} \cup KnownIds : RequestTokenFor(window, <<>>)

\* `_ = channel.send(None)` when the global is missing
RequestToken ==
    \E window \in {None} \cup KnownIds : RequestTokenFor(window, <<<<>>>>)

\* ActivationHandler::new_token(token, data), the compositor's answer to one
\* request
NewToken ==
    /\ ~panicked /\ ~in_roundtrip
    /\ \E r \in token_requests, token \in Tokens :
         /\ token_requests' = token_requests \ {r}
         /\ IF \E s \in token_senders : s.id = r.id
            THEN LET tx == CHOOSE s \in token_senders : s.id = r.id IN
                 /\ token_senders' = token_senders \ {tx}
                 /\ received' = [received EXCEPT ![tx.channel] = Append(@, <<token>>)]
            ELSE UNCHANGED <<token_senders, received>>
    /\ emitted' = <<>>
    /\ UNCHANGED <<nextId, nextWin, nextProto, windows, layer_surfaces, popups,
                   frame_status, id_map, destroyed, pending_popup, timers, sctk_events,
                   undropped, panicked, reqSince, frameSince, forgotten, given_up,
                   activation_state, activation_token_ctr, lockvars, to_commit, statusvars, bridgevars>>

\* ------------------------------------------------ core: event::Status
\* enum Status { Ignored, Captured }
Status == {"Ignored", "Captured"}

\* C28, altered function: the receiver is returned whatever b is
merge_self(self, b) == self

\* Status::merge: `match self { Status::Ignored => b, Status::Captured => Status::Captured }`
merge(self, b) ==
    IF self = "Ignored" THEN b ELSE "Captured"

\* the lists of at most n statuses
RECURSIVE StatusLists(_)
StatusLists(n) ==
    IF n = 0 THEN {<<>>}
    ELSE StatusLists(n - 1) \cup
         {Append(l, s) : l \in {m \in StatusLists(n - 1) : Len(m) = n - 1}, s \in Status}

\* a fold is given one to MaxOperands statuses and starts from Ignored
InitStatus ==
    /\ InitDispatch
    /\ InitBridgeUp
    /\ activation_state
    /\ operands \in StatusLists(MaxOperands) \ {<<>>}
    /\ folded = 0
    /\ merged = "Ignored"

\* one step of the fold: merged.merge(operands[folded + 1])
Merge ==
    /\ folded < Len(operands)
    /\ merged' = merge(merged, operands[folded + 1])
    /\ folded' = folded + 1
    /\ UNCHANGED <<nextId, nextWin, nextProto, windows, layer_surfaces, popups,
                   frame_status, id_map, destroyed, pending_popup, timers, sctk_events,
                   emitted, undropped, panicked, reqSince, frameSince, forgotten,
                   given_up, tokvars, lockvars, to_commit, operands, bridgevars>>

NextStatus == Merge

SpecStatus == InitStatus /\ [][NextStatus]_vars

\* ------------------------------------------- the consumer: surface size
\* (n > 0).then_some(n)
ThenSome(n) == IF n > 0 THEN <<n>> ELSE <<>>

\* SctkWinitWindow::request_surface_size for CommonSurface::Layer, called on
\* the consumer's thread with the Common mutex held: requested_size becomes
\* ((w > 0).then_some(w), (h > 0).then_some(h)), each positive dimension
\* becomes the one of size, and the layer surface is given set_size(w, h);
\* the RequestRedraw it sends first is handled by the dispatch thread later
RequestSurfaceSize ==
    /\ \E i \in 1..Len(layer_surfaces), w \in Dims, h \in Dims :
         LET l == layer_surfaces[i] IN
         layer_surfaces' =
            [layer_surfaces EXCEPT
               ![i].requested_size = <<ThenSome(w), ThenSome(h)>>,
               ![i].size = <<IF w > 0 THEN w ELSE l.size[1],
                             IF h > 0 THEN h ELSE l.size[2]>>]
    /\ emitted' = <<>>
    /\ UNCHANGED <<nextId, nextWin, nextProto, windows, popups, frame_status, id_map,
                   destroyed, pending_popup, timers, sctk_events, undropped, panicked,
                   reqSince, frameSince, forgotten, given_up, tokvars, lockvars,
                   to_commit, statusvars, bridgevars>>

\* ------------------------------------------------- the bridge: construction
\* the commands the consumer sends in the bridge specification
BridgeCommands ==
    {[kind |-> "SetCursor", id |-> None],
     [kind |-> "TrackWindow", id |-> MaxIds + 1],
     [kind |-> "RemoveWindow", id |-> MaxIds + 1]}

\* std::thread::spawn in SctkEventLoop::new has been called and with_wayland
\* has not yet read its result
InitBridge ==
    /\ InitDispatch
    /\ activation_state
    /\ operands = <<>>
    /\ folded = 0
    /\ merged = "Ignored"
    /\ setup = "starting"
    /\ sender = "unset"
    /\ channel = <<>>
    /\ logged = FALSE
    /\ required_globals \in BOOLEAN

BridgeUnchanged ==
    UNCHANGED <<nextId, nextWin, nextProto, layer_surfaces, popups, frame_status,
                id_map, destroyed, pending_popup, timers, sctk_events, undropped,
                reqSince, frameSince, forgotten, given_up, tokvars, lockvars, to_commit,
                statusvars, required_globals>>

\* the spawned closure reaches `.expect("wl_compositor is not available")` (or
\* the wl_shm or xdg shell one) without the global: the thread unwinds and
\* drops the receiving end of the channel with everything queued on it
SetupFails ==
    /\ setup = "starting"
    /\ ~required_globals
    /\ setup' = "failed"
    /\ panicked' = TRUE
    /\ channel' = <<>>
    /\ emitted' = <<>>
    /\ BridgeUnchanged
    /\ UNCHANGED <<windows, sender, logged>>

\* the spawned closure builds SctkState, sends SctkEvent::Subcompositor and
\* enters its loop
SetupCompletes ==
    /\ setup = "starting"
    /\ required_globals
    /\ setup' = "done"
    /\ emitted' = <<Ev("Subcompositor", None, None)>>
    /\ BridgeUnchanged
    /\ UNCHANGED <<windows, sender, logged, channel, panicked>>

\* the end of SctkEventLoop::new as with_wayland uses it:
\* `if res.is_finished() { res.join().map(|_| action_tx) } else { Ok(action_tx) }`
\* followed by `.ok()`; a thread that unwound joins to Err
WithWayland ==
    /\ sender = "unset"
    /\ sender' = IF setup = "failed" THEN "None" ELSE "Some"
    /\ emitted' = <<>>
    /\ BridgeUnchanged
    /\ UNCHANGED <<windows, setup, channel, logged, panicked>>

\* PlatformSpecific::send_wayland(action): with no sender SctkEventLoop::new is
\* run again, and `finished` is what is_finished() answers for the new thread;
\* then `if let Some(tx) = sender { _ = tx.send(action) } else { log::error!(..) }`
SendWayland(action) ==
    /\ Len(channel) < MaxQueued
    /\ emitted' = <<>>
    /\ IF sender = "None"
       THEN \E finished \in BOOLEAN :
              IF finished
              THEN /\ ~required_globals
                   /\ setup' = "failed"
                   /\ panicked' = TRUE
                   /\ sender' = "None"
                   /\ channel' = <<>>
                   /\ logged' = TRUE
              ELSE /\ setup' = "starting"
                   /\ panicked' = FALSE
                   /\ sender' = "Some"
                   /\ channel' = <<action>>
                   /\ logged' = FALSE
       ELSE /\ channel' = IF setup = "failed" THEN <<>> ELSE Append(channel, action)
            /\ logged' = FALSE
            /\ UNCHANGED <<setup, panicked, sender>>
    /\ BridgeUnchanged
    /\ UNCHANGED windows

SendCommand ==
    /\ sender # "unset"
    /\ \E action \in BridgeCommands : SendWayland(action)

\* the channel source's callback in the dispatch loop, for the commands of
\* BridgeCommands: SetCursor finds no seat, TrackWindow adds the window,
\* RemoveWindow retains the other windows
BridgeDispatch ==
    /\ setup = "done"
    /\ ~panicked /\ ~in_roundtrip
    /\ channel # <<>>
    /\ channel' = Tail(channel)
    /\ windows' = CASE Head(channel).kind = "RemoveWindow"
                         -> {w \in windows : w.id # Head(channel).id}
                    [] Head(channel).kind = "TrackWindow"
                         -> windows \cup {[id |-> Head(channel).id,
                                           wl |-> WindowSurface(Head(channel).id)]}
                    [] OTHER -> windows
    /\ emitted' = <<>>
    /\ BridgeUnchanged
    /\ UNCHANGED <<setup, sender, logged, panicked>>

NextBridge ==
    \/ SetupFails
    \/ SetupCompletes
    \/ WithWayland
    \/ SendCommand
    \/ BridgeDispatch

SpecBridge == InitBridge /\ [][NextBridge]_vars

\* ------------------------------------------ commands: layer setters
\* the values a setter command may carry; 0 is the builder's value
SetterValues == {0, 1}

\* the fields of SctkLayerSurface the setter commands assign
SetterFields == {"anchor", "exclusive_zone", "margin", "keyboard_interactivity", "layer"}

\* C22, altered map: the entry is added beside the ones the key already has
map_insert_beside(m, k, v) ==
    SelectSeq(m, LAMBDA e : e.id <= k) \o <<[id |-> k, wl |-> v]>>
        \o SelectSeq(m, LAMBDA e : e.id > k)

\* HashMap::insert on to_commit: the value of key k is v afterwards, the other
\* keys keep theirs (the pairs are listed by key, a HashMap has no order)
map_insert(m, k, v) ==
    SelectSeq(m, LAMBDA e : e.id < k) \o <<[id |-> k, wl |-> v]>>
        \o SelectSeq(m, LAMBDA e : e.id > k)

\* the body the five setter arms of handle_action share:
\* `if let Some(layer_surface) = self.layer_surfaces.iter_mut().find(|l| l.id == id)
\*  { layer_surface.f = v; layer_surface.surface.set_f(v);
\*    _ = self.to_commit.insert(id, wl_surface.clone()); }`
LayerSet(f, id, v) ==
    /\ LET i == Position(layer_surfaces, "id", id) IN
       IF i # 0
       THEN /\ layer_surfaces' = [layer_surfaces EXCEPT ![i][f] = v]
            /\ to_commit' = map_insert(to_commit, id, layer_surfaces[i].wl)
       ELSE UNCHANGED <<layer_surfaces, to_commit, statusvars, bridgevars>>
    /\ emitted' = <<>>
    /\ UNCHANGED <<nextId, nextWin, nextProto, windows, popups, frame_status, id_map,
                   destroyed, pending_popup, timers, sctk_events, undropped, panicked,
                   reqSince, frameSince, forgotten, given_up, tokvars, lockvars,
                   statusvars, bridgevars>>

\* layer_surface::Action::Anchor { id, anchor }
Anchor ==
    /\ ~panicked /\ ~in_roundtrip
    /\ \E id \in 1..MaxIds, v \in SetterValues : LayerSet("anchor", id, v)

\* layer_surface::Action::ExclusiveZone { id, exclusive_zone }
ExclusiveZone ==
    /\ ~panicked /\ ~in_roundtrip
    /\ \E id \in 1..MaxIds, v \in SetterValues : LayerSet("exclusive_zone", id, v)

\* layer_surface::Action::Margin { id, margin }
Margin ==
    /\ ~panicked /\ ~in_roundtrip
    /\ \E id \in 1..MaxIds, v \in SetterValues : LayerSet("margin", id, v)

\* layer_surface::Action::KeyboardInteractivity { id, keyboard_interactivity }
KeyboardInteractivity ==
    /\ ~panicked /\ ~in_roundtrip
    /\ \E id \in 1..MaxIds, v \in SetterValues :
         LayerSet("keyboard_interactivity", id, v)

\* layer_surface::Action::Layer { id, layer }
Layer ==
    /\ ~panicked /\ ~in_roundtrip
    /\ \E id \in 1..MaxIds, v \in SetterValues : LayerSet("layer", id, v)

\* -------------------------------------------- commands: session lock
\* session_lock::Action::Lock: `if self.session_lock.is_none()`, the lock is
\* whatever session_lock_state.lock(..).ok() gives, and SessionLocked is sent
\* in both cases
Lock ==
    /\ ~panicked /\ ~in_roundtrip
    /\ IF ~session_lock
       THEN /\ \E ok \in BOOLEAN : session_lock' = ok
            /\ emitted' = <<Ev("SessionLocked", None, None)>>
       ELSE /\ session_lock' = session_lock
            /\ emitted' = <<>>
    /\ UNCHANGED <<nextId, nextWin, nextProto, windows, layer_surfaces, popups,
                   frame_status, id_map, destroyed, pending_popup, timers, sctk_events,
                   undropped, panicked, reqSince, frameSince, forgotten, given_up,
                   tokvars, lock_surfaces, in_roundtrip, to_commit, statusvars, bridgevars>>

\* C29, altered command: the roundtrip is entered before the lock is taken
UnlockHoldingLock ==
    /\ ~panicked /\ ~in_roundtrip
    /\ in_roundtrip' = TRUE
    /\ emitted' = <<>>
    /\ UNCHANGED <<nextId, nextWin, nextProto, windows, layer_surfaces, popups,
                   frame_status, id_map, destroyed, pending_popup, timers, sctk_events,
                   undropped, panicked, reqSince, frameSince, forgotten, given_up,
                   tokvars, lock_surfaces, session_lock, to_commit, statusvars, bridgevars>>

\* session_lock::Action::Unlock up to the call of connection.roundtrip():
\* `if let Some(session_lock) = self.session_lock.take() { session_lock.unlock() }`
Unlock ==
    /\ ~panicked /\ ~in_roundtrip
    /\ session_lock' = FALSE
    /\ in_roundtrip' = TRUE
    /\ emitted' = <<>>
    /\ UNCHANGED <<nextId, nextWin, nextProto, windows, layer_surfaces, popups,
                   frame_status, id_map, destroyed, pending_popup, timers, sctk_events,
                   undropped, panicked, reqSince, frameSince, forgotten, given_up,
                   tokvars, lock_surfaces, to_commit, statusvars, bridgevars>>

\* connection.roundtrip() returns (its result is ignored) and the Unlock
\* handler ends with send_event(SessionUnlocked)
UnlockRoundtripDone ==
    /\ ~panicked /\ in_roundtrip
    /\ in_roundtrip' = FALSE
    /\ emitted' = <<Ev("SessionUnlocked", None, None)>>
    /\ UNCHANGED <<nextId, nextWin, nextProto, windows, layer_surfaces, popups,
                   frame_status, id_map, destroyed, pending_popup, timers, sctk_events,
                   undropped, panicked, reqSince, frameSince, forgotten, given_up,
                   tokvars, lock_surfaces, session_lock, to_commit, statusvars, bridgevars>>

\* session_lock::Action::LockSurface { id, output } with get_lock_surface;
\* `locked` is `self.session_lock.as_ref()` being Some
LockSurfaceWhen(locked) ==
    /\ ~panicked /\ ~in_roundtrip
    /\ nextId <= MaxIds
    /\ nextId' = nextId + 1
    /\ IF locked
       THEN /\ Len(lock_surfaces) < MaxLockSurfaces
            /\ \E p \in Allocatable :
                 /\ id_map' = [id_map EXCEPT ![p] = nextId]
                 /\ lock_surfaces' = Append(lock_surfaces, [id |-> nextId, wl |-> p])
                 /\ frame_status' = receive_frame(frame_status, p)
                 /\ frameSince' = [frameSince EXCEPT ![p] = TRUE]
                 /\ emitted' = <<Ev("LockSurfaceCreated", p, nextId)>>
                 /\ nextProto' = BumpProto(p)
       ELSE /\ emitted' = <<>>
            /\ UNCHANGED <<id_map, lock_surfaces, frame_status, frameSince, nextProto>>
    /\ UNCHANGED <<nextWin, windows, layer_surfaces, popups, destroyed, pending_popup,
                   timers, sctk_events, undropped, panicked, reqSince, forgotten,
                   given_up, tokvars, session_lock, in_roundtrip, to_commit, statusvars, bridgevars>>

\* C21, altered command: the surface is made whether or not a lock is held
LockSurfaceUnguarded == \E locked \in {TRUE} : LockSurfaceWhen(locked)

LockSurface == \E locked \in {session_lock} : LockSurfaceWhen(locked)

\* session_lock::Action::DestroyLockSurface { id }
DestroyLockSurface ==
    /\ ~panicked /\ ~in_roundtrip
    /\ \E id \in 1..(nextId - 1) :
         LET i == Position(lock_surfaces, "id", id) IN
         /\ i # 0
         /\ LET k == lock_surfaces[i]
                sid == id_map[k.wl]
            IN /\ lock_surfaces' = RemoveAt(lock_surfaces, i)
               /\ id_map' = [id_map EXCEPT ![k.wl] = None]
               /\ destroyed' = IF sid # None THEN destroyed \cup {sid} ELSE destroyed
               /\ forgotten' = IF sid # None THEN forgotten \cup {[id |-> sid, wl |-> k.wl]}
                               ELSE forgotten
               /\ emitted' = <<Ev("LockSurfaceDone", k.wl, k.id)>>
               /\ undropped' = undropped \cup {[id |-> k.id, wl |-> k.wl]}
    /\ UNCHANGED <<nextId, nextWin, nextProto, windows, layer_surfaces, popups,
                   frame_status, pending_popup, timers, sctk_events, panicked, reqSince,
                   frameSince, given_up, tokvars, session_lock, in_roundtrip, to_commit, statusvars, bridgevars>>

\* ------------------------------------------------------------ redraw scan
\* C36, altered scan: every protocol id is visited, tracked or not
ScanEveryId == [p \in ProtoIds |-> p]

\* The surfaces the loop iterates: layer surfaces, then popups
ScanOrder == [i \in 1..Len(layer_surfaces) |-> layer_surfaces[i].wl]
             \o [i \in 1..Len(popups) |-> popups[i].wl]
             \o [i \in 1..Len(lock_surfaces) |-> lock_surfaces[i].wl]

\* C1, altered scan: the scan skips only the surfaces still in Received
CommittableNotReceived(p) ==
    frame_status[p] \in {"Ready", "RequestedRedraw"} /\ id_map[p] # None

\* `if status is not Ready || !id_map.contains_key(&id) { continue; }`
Committable(p) == frame_status[p] = "Ready" /\ id_map[p] # None

\* C37, altered scan: the surfaces are committed and nothing is sent
RedrawEventsUnsent(order) == <<>>

RECURSIVE RedrawEvents(_)
RedrawEvents(order) ==
    IF order = <<>> THEN <<>>
    ELSE IF Committable(Head(order))
    THEN <<Ev("RedrawRequested", Head(order), id_map[Head(order)])>>
         \o RedrawEvents(Tail(order))
    ELSE RedrawEvents(Tail(order))

\* The loop body after event_loop.dispatch returns: commit every Ready
\* surface, forward the buffered sctk_events, wake the consumer if anything
\* was sent, then (head of the next iteration) send Control::AboutToWait and
\* enter event_loop.dispatch again
Scan ==
    /\ ~panicked /\ ~in_roundtrip
    /\ UNCHANGED <<given_up, tokvars, lockvars, to_commit, statusvars, bridgevars>>
    /\ LET committed == {p \in Range(ScanOrder) : Committable(p)} IN
       /\ frame_status' = [p \in ProtoIds |->
                             IF p \in committed THEN "Absent" ELSE frame_status[p]]
       /\ reqSince' = [p \in ProtoIds |-> IF p \in committed THEN FALSE ELSE reqSince[p]]
       /\ frameSince' = [p \in ProtoIds |-> IF p \in committed THEN FALSE ELSE frameSince[p]]
    /\ emitted' = RedrawEvents(ScanOrder) \o sctk_events
    /\ undropped' = undropped \cup Dones(sctk_events)
    /\ sctk_events' = <<>>
    /\ UNCHANGED <<nextId, nextWin, nextProto, windows, layer_surfaces, popups, id_map,
                   destroyed, pending_popup, timers, panicked, forgotten>>

Next ==
    \/ TrackWindow
    \/ RemoveWindow
    \/ LayerSurfaceCreate
    \/ LayerDestroy
    \/ LayerClosed
    \/ Configure
    \/ Frame
    \/ RequestRedraw
    \/ Dropped
    \/ PopupCmd
    \/ PopupDestroyCmd
    \/ PopupDoneEv
    \/ TimerFire
    \/ Scan

Spec == Init /\ [][Next]_vars

\* Construction on a compositor with xdg-activation (the bind succeeds): the
\* start of the specifications below whose actions never read activation_state
InitActivation == Init /\ activation_state

\* The frame throttle over layer surfaces and popups, with surfaces removed
\* (by command and by the compositor) and their protocol ids handed out again
\* on the popup side: the removal of layer surfaces, the popup retry timer and
\* winit's windows are left out
NextThrottle ==
    \/ LayerSurfaceCreate
    \/ Configure
    \/ Frame
    \/ RequestRedraw
    \/ Dropped
    \/ PopupCmd
    \/ PopupDestroyCmd
    \/ PopupDoneEv
    \/ Scan

SpecThrottle == InitActivation /\ [][NextThrottle]_vars

\* The popup stack and the registry: the handlers that only touch the frame
\* status (which no popup handler reads) are left out
NextPopup ==
    \/ TrackWindow
    \/ RemoveWindow
    \/ LayerSurfaceCreate
    \/ LayerDestroy
    \/ LayerClosed
    \/ Dropped
    \/ PopupCmd
    \/ PopupDestroyCmd
    \/ PopupDoneEv
    \/ TimerFire
    \/ Scan

SpecPopup == InitActivation /\ [][NextPopup]_vars

\* The layer surfaces with their sizes: creation, the Size command, configure
\* events, removal, and the frame status the Size command feeds
NextLayer ==
    \/ LayerSurfaceCreate
    \/ LayerSize
    \/ LayerDestroy
    \/ LayerClosed
    \/ Configure
    \/ Frame
    \/ RequestRedraw
    \/ Dropped
    \/ Scan

SpecLayer == InitActivation /\ [][NextLayer]_vars

\* The layer setters: the creation and removal of layer surfaces and the five
\* setter commands
NextSetter ==
    \/ LayerSurfaceCreate
    \/ LayerDestroy
    \/ Anchor
    \/ ExclusiveZone
    \/ Margin
    \/ KeyboardInteractivity
    \/ Layer

SpecSetter == InitActivation /\ [][NextSetter]_vars

\* The Common block of the layer surfaces: the consumer's
\* request_surface_size, and the dispatch thread's creation, Size command,
\* configure handler, removal and scan
NextCommon ==
    \/ RequestSurfaceSize
    \/ LayerSurfaceCreate
    \/ LayerSize
    \/ LayerDestroy
    \/ Configure
    \/ Scan

SpecCommon == InitActivation /\ [][NextCommon]_vars

\* The frame status of the layer surfaces: creation and removal, the drop of
\* the window, configure events, frame callbacks, redraw requests and the scan
NextFrame ==
    \/ LayerSurfaceCreate
    \/ LayerDestroy
    \/ Configure
    \/ Frame
    \/ RequestRedraw
    \/ Dropped
    \/ Scan

SpecFrame == InitActivation /\ [][NextFrame]_vars

\* The consumer's commands alone, no compositor event: windows, layer
\* surfaces and popups made and removed, windows dropped, and the retry timer
\* the popup command arms
NextCommands ==
    \/ TrackWindow
    \/ RemoveWindow
    \/ LayerSurfaceCreate
    \/ LayerDestroy
    \/ PopupCmd
    \/ PopupDestroyCmd
    \/ Dropped
    \/ TimerFire

SpecCommands == InitActivation /\ [][NextCommands]_vars

\* The Done notifications and the redraw scan: surfaces are created, removed
\* by command and by the compositor, and their protocol ids handed out
\* again, while redraw requests and frame callbacks keep arriving for every
\* wl_surface some party still holds; no window is dropped and no retry
\* timer fires
NextDone ==
    \/ LayerSurfaceCreate
    \/ LayerDestroy
    \/ LayerClosed
    \/ Frame
    \/ RequestRedraw
    \/ PopupCmd
    \/ PopupDestroyCmd
    \/ PopupDoneEv
    \/ Scan

SpecDone == InitActivation /\ [][NextDone]_vars

\* the frame callback of surface p arrives while p waits for it
FrameDelivered(p) == Frame /\ frame_status[p] = "RequestedRedraw" /\ frame_status'[p] = "Ready"

\* Redraws of layer surfaces and popups: surfaces created and removed (by
\* command and by the compositor), redraw requests, frame callbacks and the
\* scan
NextRedraw ==
    \/ LayerSurfaceCreate
    \/ LayerDestroy
    \/ Frame
    \/ RequestRedraw
    \/ PopupCmd
    \/ PopupDoneEv
    \/ Scan

\* The same under the scheduling of the loop: the loop body runs again after
\* every return of event_loop.dispatch, so the scan is taken whenever it
\* stays possible, and the compositor delivers the frame callback a surface
\* waits for
SpecRedrawFair ==
    /\ InitActivation
    /\ [][NextRedraw]_vars
    /\ WF_vars(Scan)
    /\ \A p \in ProtoIds : WF_vars(FrameDelivered(p))

\* the consumer drops the window of surface id, whose Done it has handled,
\* and the channel callback takes the id out of the set
DroppedOf(id) == Dropped /\ id \in destroyed /\ id \notin destroyed'

\* The destructions in flight: layer surfaces and popups made and removed,
\* by command and by the compositor, the scan forwarding the buffered Done
\* events, and the windows dropped
NextDestroyed ==
    \/ LayerSurfaceCreate
    \/ LayerDestroy
    \/ PopupCmd
    \/ PopupDestroyCmd
    \/ PopupDoneEv
    \/ Dropped
    \/ Scan

\* The same with a consumer that drops the window of every surface whose
\* Done it was sent, and a loop that keeps forwarding its buffered events
SpecDestroyedFair ==
    /\ InitActivation
    /\ [][NextDestroyed]_vars
    /\ WF_vars(Scan)
    /\ \A id \in 1..MaxIds : WF_vars(DroppedOf(id))

\* The setters with the loop body that follows every dispatch: the scan is
\* taken whenever it stays possible
NextRecommit ==
    \/ Scan
    \/ LayerSurfaceCreate
    \/ LayerDestroy
    \/ Anchor
    \/ ExclusiveZone
    \/ Margin
    \/ KeyboardInteractivity
    \/ Layer

SpecRecommitFair == InitActivation /\ [][NextRecommit]_vars /\ WF_vars(Scan)

\* The activation tokens, with the surfaces a request can name: token
\* requests, the compositor's answers, and the creation and removal of
\* windows and layer surfaces
NextToken ==
    \/ TrackWindow
    \/ RemoveWindow
    \/ LayerSurfaceCreate
    \/ LayerDestroy
    \/ RequestToken
    \/ NewToken

SpecToken == Init /\ [][NextToken]_vars

\* The session lock: the lock commands, the lock surfaces, and the frame
\* throttle over them
NextLock ==
    \/ Lock
    \/ Unlock
    \/ UnlockRoundtripDone
    \/ LockSurface
    \/ DestroyLockSurface
    \/ Frame
    \/ RequestRedraw
    \/ Dropped
    \/ Scan

SpecLock == InitActivation /\ [][NextLock]_vars

\* --------------------------------------------------------- type invariant
TypeOK ==
    /\ nextId \in 1..(MaxIds + 1)
    /\ nextWin \in 0..MaxWindows
    /\ timers \in 0..MaxIds
    /\ destroyed \subseteq SurfaceIds
    /\ panicked \in BOOLEAN
    /\ activation_state \in BOOLEAN
    /\ session_lock \in BOOLEAN
    /\ in_roundtrip \in BOOLEAN
    /\ Len(lock_surfaces) <= MaxLockSurfaces
    /\ \A n \in 1..Len(to_commit) : to_commit[n].id \in 1..MaxIds
    /\ Len(operands) <= MaxOperands
    /\ \A n \in 1..Len(operands) : operands[n] \in Status
    /\ folded \in 0..Len(operands)
    /\ merged \in Status
    /\ setup \in {"starting", "done", "failed"}
    /\ sender \in {"unset", "None", "Some"}
    /\ Len(channel) <= MaxQueued
    /\ logged \in BOOLEAN
    /\ required_globals \in BOOLEAN
    /\ activation_token_ctr \in 0..MaxTokens
    /\ Len(received) <= MaxTokens
    /\ \A s \in token_senders : s.channel \in 1..Len(received)

\* ------------------------------------------------------------------ claims
\* RedrawRequested for object p is among the events of the step
Commits(evs, p) ==
    \E i \in 1..Len(evs) : evs[i].variant = "RedrawRequested" /\ evs[i].wl = p

CommitCount(evs, p) ==
    Cardinality({i \in 1..Len(evs) :
                   evs[i].variant = "RedrawRequested" /\ evs[i].wl = p})

\* C1: the scan commits a surface (RedrawRequested placed on the channel) only
\* in a step that starts with its frame status Ready, commits it once in that
\* step, and leaves it not Ready, so one entry into Ready gives one commit.
FrameThrottleSafety ==
    [][\A p \in ProtoIds :
         Commits(emitted', p) =>
            /\ frame_status[p] = "Ready"
            /\ frame_status'[p] # "Ready"
            /\ CommitCount(emitted', p) = 1]_vars

\* a commit has been emitted and consumed the readiness of its surface
FrameThrottleWitness ==
    \E p \in ProtoIds : Commits(emitted, p) /\ frame_status[p] = "Absent"

IsChain(pops) ==
    /\ pops # <<>>
    /\ pops[1].parent.kind # "Popup"
    /\ \A i \in 2..Len(pops) : pops[i].parent = [kind |-> "Popup", wl |-> pops[i - 1].wl]

\* one Done per popup of the stack, the deepest child first, the root last
LeafFirstDones(pops) ==
    [i \in 1..Len(pops) |->
       Ev("PopupDone", pops[Len(pops) + 1 - i].wl, pops[Len(pops) + 1 - i].id)]

\* C3: with a chain of N nested popups, the Destroy command for the root popup
\* emits exactly N Done notifications, innermost first and the root last.
RootDestroyEmitsChain ==
    [][(IsChain(popups) /\ PopupDestroyCmdFor(popups[1].id))
          => emitted' = LeafFirstDones(popups)]_vars

\* C4: in every state of the running dispatch thread each popup whose parent
\* is a popup has that parent in the popup stack (destroying a popup takes its
\* descendants with it).
PopupParentsLive ==
    ~panicked =>
       \A q \in Range(popups) :
          q.parent.kind = "Popup" => \E r \in Range(popups) : r.wl = q.parent.wl

\* -------------------------------------------------- claims: popup creation
Created(evs) == \E i \in 1..Len(evs) : evs[i].variant = "PopupCreated"

\* C5: a popup is created, by the command or by the retry timer, only from a
\* state with no destruction in flight and with the stack empty or topped by
\* the declared parent; a command arriving in any other state creates nothing
\* and leaves its request pending with attempt 0.
PopupCreationGate ==
    [][/\ Created(emitted') =>
            \/ \E parent \in KnownIds, fail \in Fails :
                  /\ PopupCmdFor(parent, fail)
                  /\ ~Blocked(popups, id_map, destroyed, parent)
            \/ /\ TimerFire
               /\ pending_popup # <<>>
               /\ ~Blocked(popups, id_map, destroyed, pending_popup[1].popup.parent)
       /\ \A parent \in KnownIds :
            (PopupCmdFor(parent, "none") /\ Blocked(popups, id_map, destroyed, parent))
               => /\ ~Created(emitted')
                  /\ pending_popup' =
                       <<[popup |-> [id |-> nextId, parent |-> parent], attempt |-> 0]>>]_vars

\* C6: while its request stays blocked, each firing of the retry timer below
\* attempt 5 only counts the attempt and keeps the timer; the firing at
\* attempt 5 drops the timer and leaves no pending popup; the counter never
\* exceeds 5.
RetryBound ==
    [][/\ (pending_popup' # <<>> => pending_popup'[1].attempt \in 0..5)
       /\ (/\ TimerFire
           /\ pending_popup # <<>>
           /\ Blocked(popups, id_map, destroyed, pending_popup[1].popup.parent))
          => IF pending_popup[1].attempt < 5
             THEN /\ pending_popup' =
                       <<[pending_popup[1] EXCEPT !.attempt = @ + 1]>>
                  /\ timers' = timers
                  /\ given_up' = given_up
             ELSE /\ pending_popup' = <<>>
                  /\ timers' = timers - 1
                  /\ given_up' = given_up \cup {pending_popup[1].popup.id}]_vars

\* a request went through all its retries and was given up; nothing is pending
RetryBoundWitness ==
    /\ given_up # {}
    /\ pending_popup = <<>>
    /\ timers = 0

\* C7: the step that gives a request up after its last retry delivers exactly
\* one Failed notification for that request.
ExhaustionNotified ==
    [][given_up' # given_up =>
          Cardinality({i \in 1..Len(emitted') :
                         /\ emitted'[i].variant = "PopupFailed"
                         /\ emitted'[i].sid \in given_up' \ given_up}) = 1]_vars

\* C8: a pending request leaves pending_popup only by being created or by
\* being given up after its own retries; until then it only counts attempts.
PendingNeverLost ==
    [][(pending_popup # <<>> /\ pending_popup' # pending_popup) =>
          \/ /\ pending_popup' # <<>>
             /\ pending_popup'[1].popup = pending_popup[1].popup
          \/ \E i \in 1..Len(emitted') :
                /\ emitted'[i].variant = "PopupCreated"
                /\ emitted'[i].sid = pending_popup[1].popup.id
          \/ pending_popup[1].popup.id \in given_up']_vars

\* id names a live window, layer surface or popup
LiveIn(id, ws, ls, ps) ==
    \/ \E w \in ws : w.id = id
    \/ Position(ls, "id", id) # 0
    \/ Position(ps, "id", id) # 0

\* C9: a creation command whose live parent is not the topmost popup destroys
\* the popup on top (its Done is emitted) and leaves the dispatch thread
\* running with the parent still live, so that the retry can create the popup.
MismatchClearsTop ==
    [][\A parent \in KnownIds :
         (/\ PopupCmdFor(parent, "none")
          /\ parent_mismatch(popups, id_map, parent)
          /\ LiveIn(parent, windows, layer_surfaces, popups))
         => LET top == popups[Len(popups)] IN
            /\ ~panicked'
            /\ Position(popups', "wl", top.wl) = 0
            /\ \E i \in 1..Len(emitted') : emitted'[i] = Ev("PopupDone", top.wl, top.id)
            /\ LiveIn(parent, windows', layer_surfaces', popups')]_vars

RegisterNeverOverwrites ==
    [][\A p \in ProtoIds :
         (id_map[p] # None /\ id_map'[p] # None) => id_map'[p] = id_map[p]]_vars

\* C12: the step that removes a surface's record (Destroy command, layer
\* surface closed, popup_done) also removes the surface's registry entry.
DestructionForgetsMapping ==
    [][~panicked' =>
         \A p \in ProtoIds :
            (/\ \E rec \in Range(layer_surfaces) \cup Range(popups) : rec.wl = p
             /\ ~\E rec \in Range(layer_surfaces') \cup Range(popups') : rec.wl = p)
            => id_map'[p] = None]_vars

\* ------------------------------------------------- claims: dispatch thread
\* C14: no compositor event (popup_done, layer closed, configure, frame
\* callback) makes the dispatch thread panic, in any state and for any surface.
CompositorEventsNeverPanic ==
    [][(PopupDoneEv \/ LayerClosed \/ Configure \/ Frame) => ~panicked']_vars

\* C16: notifications reach the outbound channel in the order the dispatch
\* thread produced them; checked per surface, the order the consumer relies
\* on: no notification for a surface is placed on the channel while an older
\* one for the same surface is still waiting in sctk_events.
EmissionOrder ==
    [][LET sent == IF Scan THEN RedrawEvents(ScanOrder) ELSE emitted' IN
       \A i \in 1..Len(sent) : \A j \in 1..Len(sctk_events) :
           sctk_events[j].wl # sent[i].wl]_vars

\* C18: no channel peer is dropped in this model, so the dispatch loop never
\* ends: no command and no compositor event terminates it.
LoopRunsUntilChannelClosed == ~panicked

\* C19: a popup creation command that is executed and cannot be fulfilled
\* (parent not live, positioner or popup object error) emits exactly one
\* Failed notification and no Created.
FailedCreateNotified ==
    [][\A parent \in KnownIds, fail \in Fails :
         (/\ PopupCmdFor(parent, fail)
          /\ ~Blocked(popups, id_map, destroyed, parent)
          /\ (fail # "none" \/ ~LiveIn(parent, windows, layer_surfaces, popups)))
         => /\ ~Created(emitted')
            /\ Cardinality({i \in 1..Len(emitted') :
                              /\ emitted'[i].variant = "PopupFailed"
                              /\ emitted'[i].sid = nextId}) = 1]_vars

\* --------------------------------------------------- claims: layer sizes
\* C13: in every state, for every layer surface and every pair of arguments,
\* a second Size command with the same arguments leaves the state the first
\* one made and sends no further Configure.
ResizeIdempotent ==
    \A id \in 1..MaxIds, w \in OptDims, h \in OptDims :
       LET once == layer_size(layer_surfaces, frame_status, id, w, h)
           twice == layer_size(once.layer_surfaces, once.frame_status, id, w, h)
       IN /\ twice.layer_surfaces = once.layer_surfaces
          /\ twice.frame_status = once.frame_status
          /\ twice.out = <<>>

\* ------------------------------------------------ claims: command order
CreatedKinds == {"PopupCreated", "LayerCreated"}

NoLostWakeup ==
    [][IF Scan THEN EndsWoken(LoopOps(emitted'))
               ELSE EndsWoken(HandlerOps(emitted'))]_vars

\* C20: without the activation capability every RequestToken command has
\* sent None to its channel by the end of its handling, and no channel is
\* ever sent to twice.
TokenRequestNeverStalls ==
    /\ ~activation_state =>
           \A ch \in 1..Len(received) : received[ch] = <<<<>>>>
    /\ \A ch \in 1..Len(received) : Len(received[ch]) <= 1

\* Two requests were answered None for lack of the capability
TokenRequestWitness ==
    /\ ~activation_state
    /\ Len(received) = 2
    /\ received[2] = <<<<>>>>

FrameOnlyFromRequested ==
    [][\A p \in ProtoIds :
         /\ (Frame /\ frame_status'[p] # frame_status[p])
            => frame_status[p] = "RequestedRedraw" /\ frame_status'[p] = "Ready"
         /\ (RequestRedraw /\ frame_status[p] \in {"RequestedRedraw", "Ready"})
            => frame_status'[p] = frame_status[p]]_vars

\* C27: a frame callback changes the status of a surface only from
\* RequestedRedraw, to Ready, or from no entry (after a commit), to Received;
\* in Received and in Ready it changes nothing; and a redraw request changes
\* neither RequestedRedraw nor Ready.
FrameCallbackSteps ==
    [][\A p \in ProtoIds :
         /\ (frame_status'[p] # frame_status[p] /\ Frame)
            => \/ frame_status[p] = "RequestedRedraw" /\ frame_status'[p] = "Ready"
               \/ frame_status[p] = "Absent" /\ frame_status'[p] = "Received"
         /\ (frame_status'[p] # frame_status[p] /\ RequestRedraw)
            => frame_status[p] \notin {"RequestedRedraw", "Ready"}]_vars

\* after a commit a frame callback arrived first: the entry is Received again
FrameCallbackWitness ==
    \E i \in 1..Len(layer_surfaces) :
       /\ frame_status[layer_surfaces[i].wl] = "Received"
       /\ frameSince[layer_surfaces[i].wl]
       /\ ~reqSince[layer_surfaces[i].wl]
       /\ layer_surfaces[i].last_configure # <<>>

\* C30: the step that creates a surface (it emits the surface's Created)
\* leaves the frame status of the surface's protocol object Received, whatever
\* entry an earlier surface on the same object id left behind.
CreatedStartsReceived ==
    [][\A i \in 1..Len(emitted') :
         emitted'[i].variant \in CreatedKinds
         => frame_status'[emitted'[i].wl] = "Received"]_vars

\* ------------------------------------------------- claims: session lock
\* C21: a LockSurface command handled while no session lock is held sends
\* nothing and leaves the lock surfaces, the registry, the frame statuses and
\* every other field of the dispatch state as they were.
LockSurfaceNeedsLock ==
    [][(LockSurface /\ ~session_lock)
       => /\ emitted' = <<>>
          /\ UNCHANGED <<lock_surfaces, id_map, frame_status, nextProto, destroyed,
                         sctk_events, layer_surfaces, popups, session_lock>>]_vars

\* one LockSurface command was handled without a lock and no surface was
\* ever made
LockSurfaceNeedsLockWitness ==
    /\ ~session_lock
    /\ nextId = 2
    /\ nextProto = 1
    /\ lock_surfaces = <<>>

\* C29 as stated: the dispatch thread never waits inside a command or a
\* protocol handler; its only blocking wait is event_loop.dispatch.
BlocksOnlyInDispatch == ~in_roundtrip

\* C29: the one wait inside a handler is the roundtrip of Unlock, and it is
\* entered with the lock already taken out of the state and with the
\* registry, the popup stack and the surface lists untouched by the command.
BlocksWithWholeState ==
    [][in_roundtrip'
       => /\ Unlock
          /\ ~session_lock'
          /\ UNCHANGED <<id_map, popups, destroyed, layer_surfaces, lock_surfaces,
                         pending_popup, frame_status>>]_vars

\* the thread is inside the roundtrip while a lock surface is registered
BlocksWithWholeStateWitness ==
    /\ in_roundtrip
    /\ \E i \in 1..Len(lock_surfaces) : id_map[lock_surfaces[i].wl] = lock_surfaces[i].id

\* ------------------------------------------- claims: configure events
\* the notifications a step produces: sent at once, or appended to sctk_events
Produced ==
    IF sctk_events' = <<>> THEN emitted'
    ELSE emitted' \o SubSeq(sctk_events', Len(sctk_events) + 1, Len(sctk_events'))

\* C23, for layer surfaces: a Configure reaches the channel after the
\* Created of its surface; a Configure with is_first = false never reaches
\* the channel ahead of the is_first = true one of the same surface; and the
\* size of a Configure is, per axis, the requested dimension of the surface
\* when one is set.
ConfiguredAfterCreated ==
    [][/\ \A i \in 1..Len(emitted') :
            emitted'[i].variant = "LayerConfigure"
            => /\ emitted'[i].sid < nextId
               /\ \A j \in 1..Len(emitted') :
                    (emitted'[j].variant = "LayerCreated" /\ emitted'[j].sid = emitted'[i].sid)
                    => j < i
               /\ ~emitted'[i].first
                  => /\ \A j \in 1..Len(sctk_events') :
                          (sctk_events'[j].variant = "LayerConfigure"
                           /\ sctk_events'[j].sid = emitted'[i].sid)
                          => ~sctk_events'[j].first
                     /\ \A j \in 1..Len(emitted') :
                          (emitted'[j].variant = "LayerConfigure"
                           /\ emitted'[j].sid = emitted'[i].sid /\ emitted'[j].first)
                          => j < i
       /\ \A i \in 1..Len(Produced) :
            Produced[i].variant = "LayerConfigure"
            => \A n \in 1..Len(layer_surfaces') :
                 layer_surfaces'[n].id = Produced[i].sid
                 => \A k \in 1..2 :
                      layer_surfaces'[n].requested_size[k] # <<>>
                      => Produced[i].size[k] = layer_surfaces'[n].requested_size[k][1]]_vars

\* ------------------------------------------------- claims: layer setters
\* the number of pairs to_commit holds for the key id
PendingEntries(m, id) == Cardinality({n \in 1..Len(m) : m[n].id = id})

\* C22: a setter command for a live layer surface gives that one field of that
\* surface's record the command's value, leaves every other field and every
\* other record as it was, and leaves exactly one to_commit entry for the
\* surface (its wl_surface) however many setters came before; a setter for an
\* id that is no live layer surface changes neither the records nor to_commit.
SetterUpdatesOneField ==
    [][\A f \in SetterFields, id \in 1..MaxIds, v \in SetterValues :
         LayerSet(f, id, v) =>
            LET i == Position(layer_surfaces, "id", id) IN
            IF i = 0
            THEN UNCHANGED <<layer_surfaces, to_commit, statusvars, bridgevars>>
            ELSE /\ Len(layer_surfaces') = Len(layer_surfaces)
                 /\ layer_surfaces'[i][f] = v
                 /\ \A g \in (DOMAIN layer_surfaces[i]) \ {f} :
                      layer_surfaces'[i][g] = layer_surfaces[i][g]
                 /\ \A n \in (1..Len(layer_surfaces)) \ {i} :
                      layer_surfaces'[n] = layer_surfaces[n]
                 /\ PendingEntries(to_commit', id) = 1
                 /\ \E n \in 1..Len(to_commit') :
                      to_commit'[n] = [id |-> id, wl |-> layer_surfaces[i].wl]
                 /\ \A other \in (1..MaxIds) \ {id} :
                      PendingEntries(to_commit', other) = PendingEntries(to_commit, other)]_vars

\* two setters were handled for the same live layer surface and to_commit
\* holds one entry for it
SetterUpdatesWitness ==
    \E i \in 1..Len(layer_surfaces) :
       /\ layer_surfaces[i].anchor = 1
       /\ layer_surfaces[i].margin = 1
       /\ PendingEntries(to_commit, layer_surfaces[i].id) = 1

\* ------------------------------------------------- claims: Status::merge
\* the statuses at hand in a state: the operands and the status merged so far
StatusesAtHand == {operands[i] : i \in 1..Len(operands)} \cup {merged}

\* C28: merge gives Captured exactly when one of its two operands is Captured;
\* it is commutative, associative and idempotent and Ignored is its identity;
\* so the status merged from Ignored over a list is Captured exactly when the
\* list holds a Captured.
MergeCapturedPrecedence ==
    /\ \A a, b \in StatusesAtHand :
         /\ (merge(a, b) = "Captured") <=> (a = "Captured" \/ b = "Captured")
         /\ merge(a, b) \in Status
         /\ merge(a, b) = merge(b, a)
         /\ \A c \in StatusesAtHand : merge(merge(a, b), c) = merge(a, merge(b, c))
    /\ \A a \in StatusesAtHand :
         /\ merge(a, a) = a
         /\ merge("Ignored", a) = a
         /\ merge(a, "Ignored") = a
    /\ (merged = "Captured") <=> (\E i \in 1..folded : operands[i] = "Captured")

\* a whole list starting with Ignored and holding both statuses was merged
MergeCapturedWitness ==
    /\ Len(operands) >= 3
    /\ folded = Len(operands)
    /\ operands[1] = "Ignored"
    /\ operands[2] = "Captured"
    /\ operands[3] = "Ignored"
    /\ merged = "Captured"

\* ------------------------------------------------- claims: the bridge
\* C24: when the dispatch thread's setup fails for want of a required global,
\* with_wayland still ends with the bridge made, and every command sent after
\* the failure is logged and dropped: the error is logged, nothing stays on
\* the channel, and nothing is placed on events_sender.
SetupFailureIsolated ==
    [][/\ WithWayland => sender' \in {"None", "Some"}
       /\ \A action \in BridgeCommands :
            (SendWayland(action) /\ setup = "failed")
               => /\ logged'
                  /\ channel' = <<>>
                  /\ emitted' = <<>>]_vars

\* ------------------------------------------------- claims: Common
\* the size and requested_size of the Common block of each layer surface
CommonBlocks ==
    [i \in 1..Len(layer_surfaces) |->
       [size |-> layer_surfaces[i].size,
        requested_size |-> layer_surfaces[i].requested_size]]

\* C25: the consumer's thread only reads the Common blocks: its
\* request_surface_size leaves the size and the requested_size of every
\* surface as they were, every write being the dispatch thread's.
ConsumerOnlyReadsCommon ==
    [][RequestSurfaceSize => UNCHANGED CommonBlocks]_vars

\* ------------------------------------------------- claims: the Size command
\* C31: a Size command for a layer surface that was configured before sends
\* one Configure, not a first one, whose width is the given width or else the
\* last configured width and whose height is the given height or else the
\* last configured height, and leaves requested_size the given pair.
SizeCarriesBothAxes ==
    [][\A id \in 1..MaxIds, w \in OptDims, h \in OptDims :
         LET i == Position(layer_surfaces, "id", id) IN
         (i # 0 /\ layer_surfaces[i].last_configure # <<>> /\ LayerSizeFor(id, w, h))
         => LET l == layer_surfaces[i]
                prev == l.last_configure[1]
            IN /\ emitted' = <<EvConfigure(l.wl, l.id,
                                           <<UnwrapOr(w, prev[1]), UnwrapOr(h, prev[2])>>,
                                           FALSE)>>
               /\ layer_surfaces'[i].requested_size = <<w, h>>]_vars

\* ------------------------------------------------- claims: popup Destroy
\* the popup q and its popup ancestors in pops, q first and the root-most
\* ancestor last: the parent links are followed while they name a popup of pops
RECURSIVE AncestorChain(_, _)
AncestorChain(pops, q) ==
    LET i == IF q.parent.kind = "Popup" THEN Position(pops, "wl", q.parent.wl) ELSE 0 IN
    IF i = 0 THEN <<q>>
    ELSE <<q>> \o AncestorChain(RemoveAt(pops, i), pops[i])

\* C32: the Destroy command for the popup P removes from the stack P and the
\* popup ancestors of P and no other popup, removes their mappings, puts
\* their ids in destroyed, and sends one Done for each of them, the root-most
\* ancestor first and P last, without unwinding; for an id that is no popup
\* of the stack it changes nothing and sends nothing.
DestroyTakesAncestors ==
    [][\A id \in 1..MaxIds :
         PopupDestroyCmdFor(id) =>
            LET i == Position(popups, "id", id) IN
            IF i = 0
            THEN emitted' = <<>> /\ UNCHANGED <<popups, id_map, destroyed>>
            ELSE LET chain == AncestorChain(RemoveAt(popups, i), popups[i])
                     gone == Range(chain)
                 IN /\ ~panicked'
                    /\ popups' = SelectSeq(popups, LAMBDA r : r \notin gone)
                    /\ \A p \in ProtoIds :
                         id_map'[p] = IF \E r \in gone : r.wl = p THEN None ELSE id_map[p]
                    /\ destroyed' = destroyed \cup
                                    {id_map[r.wl] : r \in {x \in gone : id_map[x.wl] # None}}
                    /\ emitted' = [n \in 1..Len(chain) |->
                                     Ev("PopupDone", chain[Len(chain) + 1 - n].wl,
                                        chain[Len(chain) + 1 - n].id)]]_vars

\* ------------------------------------------------- claims: command panics
\* C33: no popup command unwinds the dispatch thread, in any state the
\* consumer's commands lead to: neither a creation with a mismatched parent
\* nor the Destroy of a popup whose parent popup was destroyed before.
PopupCommandsNeverPanic ==
    [][(PopupCmd \/ PopupDestroyCmd) => ~panicked']_vars


\* C34: at most one popup-retry timer is armed at any time, so that a firing
\* timer acts on the request it was armed for and no request shares its
\* retries between two timers.
OneRetryTimer ==
    [][/\ timers' <= 1
       /\ (/\ pending_popup' # <<>>
           /\ (pending_popup = <<>> \/ pending_popup'[1].popup # pending_popup[1].popup))
          => (timers = 0 /\ timers' = 1)]_vars


\* C35: a creation command that takes the direct path and fails (no parent,
\* no positioner, or no popup object) leaves the registry, the popup stack
\* and the frame status as they were before the command.
FailedCreationLeavesNoTrace ==
    [][\A parent \in KnownIds, fail \in Fails :
         (/\ destroyed = {}
          /\ ~parent_mismatch(popups, id_map, parent)
          /\ PopupCmdFor(parent, fail)
          /\ ~Created(emitted'))
         => UNCHANGED <<id_map, popups, frame_status>>]_vars


\* the protocol ids of the surfaces the state keeps a record of
Recorded(ls, ps, ks) ==
    {ls[i].wl : i \in 1..Len(ls)} \cup {ps[i].wl : i \in 1..Len(ps)}
        \cup {ks[i].wl : i \in 1..Len(ks)}

\* the Done notifications a step produces: those it emits that were not
\* buffered before, and those it buffers
DonesProduced(out, before, after) ==
    LET done(evs) == {e \in Range(evs) :
                        e.variant \in {"PopupDone", "LayerDone", "LockSurfaceDone"}}
    IN {e.wl : e \in (done(out) \cup done(after)) \ done(before)}

\* C36: the Done of a surface is produced only with the surface's record
\* removed, and a RedrawRequested is emitted only for the protocol id of a
\* surface that has a record; so between the Done of a surface and the
\* creation of a new surface with its protocol id no RedrawRequested is
\* emitted for that id, whatever its frame status becomes.
NoRedrawAfterDone ==
    [][/\ DonesProduced(emitted', sctk_events, sctk_events')
            \cap Recorded(layer_surfaces', popups', lock_surfaces') = {}
       /\ \A i \in 1..Len(emitted') :
            emitted'[i].variant = "RedrawRequested"
            => emitted'[i].wl \in Recorded(layer_surfaces, popups, lock_surfaces)]_vars

\* the compositor closed a surface whose entry had become Ready; the scan
\* forwarded its Done and left the entry alone
NoRedrawAfterDoneWitness ==
    \E i \in 1..Len(emitted) :
        /\ emitted[i].variant \in {"PopupDone", "LayerDone"}
        /\ emitted[i].wl \notin Recorded(layer_surfaces, popups, lock_surfaces)
        /\ id_map[emitted[i].wl] # None
        /\ frame_status[emitted[i].wl] = "Ready"
        /\ \A j \in 1..Len(emitted) : emitted[j].variant # "RedrawRequested"

\* a RedrawRequested for protocol id p is among the notifications just sent
Redrawn(p) ==
    \E i \in 1..Len(emitted) : emitted[i].variant = "RedrawRequested" /\ emitted[i].wl = p

\* the surface with protocol id p is destroyed: its record was removed by a
\* handler, or dropped with the rest of SctkState when the thread unwound
SurfaceDestroyed(p) ==
    p \notin Recorded(layer_surfaces, popups, lock_surfaces) \/ panicked

\* C37: a live surface for which a redraw was requested (its entry is
\* RequestedRedraw, or Ready once the frame callback has come) eventually
\* gets its RedrawRequested, unless the surface is destroyed first.
RedrawEventually ==
    \A p \in ProtoIds :
        (~SurfaceDestroyed(p) /\ frame_status[p] \in {"RequestedRedraw", "Ready"})
        ~> (Redrawn(p) \/ SurfaceDestroyed(p))

\* a popup on a layer surface got its RedrawRequested and its entry was removed
RedrawEventuallyWitness ==
    \E i \in 1..Len(popups) :
        /\ Redrawn(popups[i].wl)
        /\ frame_status[popups[i].wl] = "Absent"
        /\ ~panicked

\* C38: every SurfaceId in the set of destructions in flight eventually
\* leaves it (or the set is dropped with SctkState when the thread unwinds),
\* so no destruction whose window was dropped keeps popup creation deferred.
DestroyedEventuallyCleared ==
    \A id \in 1..MaxIds : (id \in destroyed) ~> (id \notin destroyed \/ panicked)

\* a surface was destroyed, its Done handled, its window dropped: its id has
\* left the set
DestroyedClearedWitness ==
    \E f \in forgotten :
        /\ f.id \notin destroyed
        /\ \A u \in undropped : u.id # f.id
        /\ \A i \in 1..Len(sctk_events) : sctk_events[i].sid # f.id
        /\ ~panicked

\* C39: the size in the Common of every layer surface, and the size of every
\* Configure notification buffered or sent, is at least 1 on both axes.
SizesAtLeastOne ==
    /\ \A i \in 1..Len(layer_surfaces) :
         layer_surfaces[i].size[1] >= 1 /\ layer_surfaces[i].size[2] >= 1
    /\ \A e \in Range(emitted) \cup Range(sctk_events) :
         e.variant = "LayerConfigure" => (e.size[1] >= 1 /\ e.size[2] >= 1)


\* the surface id has an entry in to_commit
MarkedForCommit(id) == \E i \in 1..Len(to_commit) : to_commit[i].id = id

\* C40: every entry a setter puts in to_commit is eventually taken out again
\* by the dispatch loop.
RecommitEventually ==
    \A id \in 1..MaxIds : MarkedForCommit(id) ~> ~MarkedForCommit(id)

====
